---- MODULE Spec2Model ----
(***************************************************************************)
(* Model of the message-delivery core of app.py: the Message and          *)
(* BlockedUser tables, the /block and /unblock routes, and the Socket.IO   *)
(* handlers for 'message', 'connect' and 'disconnect'.                     *)
(***************************************************************************)
EXTENDS Naturals, Sequences, FiniteSets

\* ---------------------------------------------------------------- bounds

\* Most rows the Message table holds in the model (the table itself is unbounded).
MaxMsgs == 2

\* Most 'message' handlers running at the same time.
MaxInflight == 2

\* ---------------------------------------------------------------- values

\* Python's None: what data.get(key) yields for an absent key.
None == "<None>"

\* Session ids the transport hands out; every session sits in the room named by its id.
Sids == {"s1", "s2"}

\* The blocker / blocked form fields of the /block and /unblock requests.
Blockers == {"A", "B", "C"}
Blockeds == {"A", "B"}

\* The fields of an inbound 'message' event.
Senders == {"A", "", None}
Receivers == {"B", "s1", "", None}
Bodies == {"hi", None}

\* The name the client behind a session goes by (the server never learns it).
ClientNames == {"B"}

DataSet == [sender : Senders, receiver : Receivers, message : Bodies]

\* The <<blocker, blocked>> pairs a message of the model can meet: the blocker is
\* a receiver and the blocked a sender.
Pairs == (Blockers \cap Receivers) \X (Blockeds \cap Senders)

VARIABLES
    messages,   \* the Message table, in insertion order
    blocks,     \* the BlockedUser table, a set of rows
    rooms,      \* connected sessions: sid -> name of its client, or None when not connected
    inbox,      \* sid -> the 'new_message' payloads the session has received
    history,    \* <<blocker, blocked>> -> "never", "blocked" (a block request was the
                \* pair's latest request) or "unblocked" (an unblock followed a block)
    last,       \* what the most recent request or event did
    connected,  \* the connected sessions, in the order they connected
    inflight    \* the 'message' handlers that have passed the block check and not yet
                \* ended, in the order their events arrived: [sid, data, pc], pc "store"
                \* before the commit and "emit" after it

vars == <<messages, blocks, rooms, inbox, history, last, connected, inflight>>

\* ---------------------------------------------------------------- tables

\* class Message: a row; file_path and timestamp take their defaults.
Message(id, sender, receiver, message, file_path) ==
    [id |-> id, sender |-> sender, receiver |-> receiver,
     message |-> message, file_path |-> file_path]

\* class BlockedUser: a row; blocked alone is the primary key.
BlockedUser(blocker, blocked) == [blocker |-> blocker, blocked |-> blocked]

\* A key made of both columns: only the same pair twice is refused.
PairKeyFree(table, row) == row \notin table

\* A table without a key: every insert is accepted.
NoKey(table, row) == TRUE

\* The primary-key constraint of BlockedUser: an insert of a row whose
\* blocked value is already in the table raises IntegrityError at commit.
PrimaryKeyFree(table, row) == \A r \in table : r.blocked # row.blocked

\* The integer primary key of Message: the largest id in the table plus one.
MaxId(table) ==
    IF table = <<>> THEN 0
    ELSE CHOOSE m \in {table[i].id : i \in 1..Len(table)} :
            \A j \in 1..Len(table) : table[j].id <= m

\* A key generator that hands out the largest id again.
StaleId(table) == IF table = <<>> THEN 1 ELSE MaxId(table)

NextId(table) == MaxId(table) + 1

\* BlockedUser.query.filter_by(blocker=..., blocked=...)
FilterBy(table, blocker, blocked) ==
    {r \in table : r.blocker = blocker /\ r.blocked = blocked}

\* is_blocked with the two columns of its filter exchanged.
is_blocked_swapped(sender, receiver) == FilterBy(blocks, receiver, sender) # {}

\* def is_blocked(sender, receiver)
is_blocked(sender, receiver) == FilterBy(blocks, sender, receiver) # {}

\* A validation that tests for None alone.
FalsyNoneOnly(x) == x = None

\* `not x` for a field of the event: None and the empty string are falsy.
Falsy(x) == x = None \/ x = ""

\* A lookup that falls back to every connected session when the room is empty.
RoomMembersOrAll(room) ==
    IF \E s \in Sids : rooms[s] # None /\ s = room
    THEN {s \in Sids : rooms[s] # None /\ s = room}
    ELSE {s \in Sids : rooms[s] # None}

\* The sessions in a room: a session is only ever in the room named by its own id.
RoomMembers(room) == {s \in Sids : rooms[s] # None /\ s = room}

\* ---------------------------------------------------------------- outcomes

\* What a request or event did: op is the route or handler, a and b its two
\* names (blocker and blocked, sender and receiver, or the session), m the
\* message body, and result how it ended: "200" or "IntegrityError" for a
\* route; for handle_message "missing" (the return of the validation),
\* "blocked" (the return of the block check), "error" (the commit raised) or
\* "sent" (the handler ran to its end).
Event(op, a, b, m, result) == [op |-> op, a |-> a, b |-> b, m |-> m, result |-> result]

\* ---------------------------------------------------------------- init

Init ==
    /\ messages = <<>>
    /\ blocks = {}
    /\ rooms = [s \in Sids |-> None]
    /\ inbox = [s \in Sids |-> <<>>]
    /\ history = [p \in Pairs |-> "never"]
    /\ last = Event("init", None, None, None, "ok")
    /\ connected = <<>>
    /\ inflight = <<>>

\* ---------------------------------------------------------------- routes

\* A block that also deletes what the blocked user has sent to the blocker.
block_user_purging(blocker, blocked) ==
    LET new_block == BlockedUser(blocker, blocked) IN
    /\ IF PrimaryKeyFree(blocks, new_block)
       THEN /\ blocks' = blocks \cup {new_block}
            /\ last' = Event("block", blocker, blocked, None, "200")
            /\ messages' = SelectSeq(messages,
                    LAMBDA row : ~(row.sender = blocked /\ row.receiver = blocker))
       ELSE /\ blocks' = blocks
            /\ last' = Event("block", blocker, blocked, None, "IntegrityError")
            /\ messages' = messages
    /\ history' = [p \in Pairs |->
                        IF p = <<blocker, blocked>> THEN "blocked" ELSE history[p]]
    /\ UNCHANGED <<rooms, inbox, connected, inflight>>

\* POST /block
block_user(blocker, blocked) ==
    LET new_block == BlockedUser(blocker, blocked) IN
    /\ IF PrimaryKeyFree(blocks, new_block)
       THEN /\ blocks' = blocks \cup {new_block}
            /\ last' = Event("block", blocker, blocked, None, "200")
       ELSE /\ blocks' = blocks
            /\ last' = Event("block", blocker, blocked, None, "IntegrityError")
    /\ history' = [p \in Pairs |->
                        IF p = <<blocker, blocked>> THEN "blocked" ELSE history[p]]
    /\ UNCHANGED <<messages, rooms, inbox, connected, inflight>>

\* A delete whose transaction is never committed.
DeleteUncommitted(table, blocker, blocked) == table

\* A delete that matches on the primary key alone.
DeleteByBlocked(table, blocker, blocked) == {r \in table : r.blocked # blocked}

\* BlockedUser.query.filter_by(blocker=blocker, blocked=blocked).delete()
Delete(table, blocker, blocked) == table \ FilterBy(table, blocker, blocked)

\* A response that reports a pair with no row as not found.
UnblockStatusStrict(table, blocker, blocked) ==
    IF FilterBy(table, blocker, blocked) = {} THEN "404" ELSE "200"

\* The response of /unblock: the same acknowledgment for every table.
UnblockStatus(table, blocker, blocked) == "200"

\* POST /unblock
unblock_user(blocker, blocked) ==
    /\ blocks' = Delete(blocks, blocker, blocked)
    /\ last' = Event("unblock", blocker, blocked, None,
                     UnblockStatus(blocks, blocker, blocked))
    /\ history' = [p \in Pairs |->
                        IF p = <<blocker, blocked>> /\ history[p] = "blocked"
                        THEN "unblocked" ELSE history[p]]
    /\ UNCHANGED <<messages, rooms, inbox, connected, inflight>>

\* ---------------------------------------------------------------- socket handlers

\* An emit that sends the stored columns, file_path default included.
emit_reshaped(data, room) ==
    inbox' = [s \in Sids |->
                IF s \in RoomMembers(room)
                THEN Append(inbox[s],
                        [sender |-> data.sender, receiver |-> data.receiver,
                         message |-> data.message, file_path |-> ""])
                ELSE inbox[s]]

\* emit('new_message', data, room=receiver)
emit(data, room) ==
    inbox' = [s \in Sids |->
                IF s \in RoomMembers(room) THEN Append(inbox[s], data) ELSE inbox[s]]

\* A block check that passes its arguments as is_blocked names them.
SuppressedSwapped(sender, receiver) == is_blocked(sender, receiver)

\* The block check of handle_message: is_blocked(receiver, sender).
Suppressed(sender, receiver) == is_blocked(receiver, sender)

\* A tail that broadcasts before it stores.
broadcast_then_store(data, commit_ok) ==
    /\ emit(data, data.receiver)
    /\ IF ~commit_ok
       THEN /\ last' = Event("message", data.sender, data.receiver, data.message, "error")
            /\ UNCHANGED messages
       ELSE /\ messages' = Append(messages,
                    Message(NextId(messages), data.sender, data.receiver, data.message, ""))
            /\ last' = Event("message", data.sender, data.receiver, data.message, "sent")

\* The tail of handle_message: store the row, then broadcast it. commit_ok is
\* whether the database accepts the write; a failed commit raises, and the
\* handler ends there.
store_and_broadcast(data, commit_ok) ==
    LET sender == data.sender
        receiver == data.receiver
        message == data.message
        file_path == ""
    IN
    IF ~commit_ok
    THEN /\ last' = Event("message", sender, receiver, message, "error")
         /\ UNCHANGED <<messages, inbox>>
    ELSE /\ messages' = Append(messages,
                 Message(NextId(messages), sender, receiver, message, file_path))
         /\ emit(data, receiver)
         /\ last' = Event("message", sender, receiver, message, "sent")

\* @socketio.on('message')
handle_message(data, commit_ok) ==
    LET sender == data.sender
        receiver == data.receiver
        message == data.message
    IN
    /\ Len(messages) < MaxMsgs
    /\ IF Falsy(sender) \/ Falsy(receiver)
       THEN /\ last' = Event("message", sender, receiver, message, "missing")
            /\ UNCHANGED <<messages, inbox>>
       ELSE IF Suppressed(sender, receiver)
       THEN /\ last' = Event("message", sender, receiver, message, "blocked")
            /\ UNCHANGED <<messages, inbox>>
       ELSE store_and_broadcast(data, commit_ok)
    /\ UNCHANGED <<blocks, rooms, history, connected, inflight>>

\* @socketio.on('connect'): the transport opens session sid for a client.
handle_connect(sid, name) ==
    /\ rooms[sid] = None
    /\ rooms' = [rooms EXCEPT ![sid] = name]
    /\ inbox' = [inbox EXCEPT ![sid] = <<>>]
    /\ connected' = Append(connected, sid)
    /\ last' = Event("connect", sid, name, None, "ok")
    /\ UNCHANGED <<messages, blocks, history, inflight>>

\* @socketio.on('disconnect'): the transport closes session sid.
handle_disconnect(sid) ==
    /\ rooms[sid] # None
    /\ rooms' = [rooms EXCEPT ![sid] = None]
    /\ inbox' = [inbox EXCEPT ![sid] = <<>>]
    /\ connected' = SelectSeq(connected, LAMBDA s : s # sid)
    /\ last' = Event("disconnect", sid, None, None, "ok")
    /\ UNCHANGED <<messages, blocks, history, inflight>>

\* ---------------------------------------------------------------- specification

Next ==
    \/ \E blocker \in Blockers, blocked \in Blockeds : block_user(blocker, blocked)
    \/ \E blocker \in Blockers, blocked \in Blockeds : unblock_user(blocker, blocked)
    \/ \E data \in DataSet, commit_ok \in BOOLEAN : handle_message(data, commit_ok)
    \/ \E sid \in Sids, name \in ClientNames : handle_connect(sid, name)
    \/ \E sid \in Sids : handle_disconnect(sid)

Spec == Init /\ [][Next]_vars

\* ---------------------------------------------------------------- concurrent handlers

\* The server is built without async_handlers=False and handle_message holds
\* no lock, so a 'message' handler runs in a thread of its own, beside the
\* other handlers (also those of its own connection) and beside the /block and
\* /unblock requests. Its accesses to the shared tables and to the transport
\* are the block check, the commit and the emit: one step each.

\* sequence seq without its i-th element
Without(seq, i) == SubSeq(seq, 1, i - 1) \o SubSeq(seq, i + 1, Len(seq))

\* handle_message up to the block check, for an event arriving on session sid.
handle_message_check(sid, data) ==
    LET sender == data.sender
        receiver == data.receiver
        message == data.message
    IN
    /\ rooms[sid] # None
    /\ Len(inflight) < MaxInflight
    /\ Len(messages) + Cardinality({i \in 1..Len(inflight) : inflight[i].pc = "store"})
            < MaxMsgs
    /\ IF Falsy(sender) \/ Falsy(receiver)
       THEN /\ last' = Event("message", sender, receiver, message, "missing")
            /\ UNCHANGED inflight
       ELSE IF Suppressed(sender, receiver)
       THEN /\ last' = Event("message", sender, receiver, message, "blocked")
            /\ UNCHANGED inflight
       ELSE /\ last' = Event("message", sender, receiver, message, "checked")
            /\ inflight' = Append(inflight, [sid |-> sid, data |-> data, pc |-> "store"])
    /\ UNCHANGED <<messages, blocks, rooms, inbox, history, connected>>

\* handle_message from the insert to the commit, for the i-th running handler.
handle_message_store(i, commit_ok) ==
    LET data == inflight[i].data IN
    /\ inflight[i].pc = "store"
    /\ IF ~commit_ok
       THEN /\ last' = Event("message", data.sender, data.receiver, data.message, "error")
            /\ inflight' = Without(inflight, i)
            /\ UNCHANGED messages
       ELSE /\ messages' = Append(messages,
                    Message(NextId(messages), data.sender, data.receiver, data.message, ""))
            /\ last' = Event("message", data.sender, data.receiver, data.message, "stored")
            /\ inflight' = [inflight EXCEPT ![i].pc = "emit"]
    /\ UNCHANGED <<blocks, rooms, inbox, history, connected>>

\* handle_message from the emit to its end, for the i-th running handler.
handle_message_emit(i) ==
    LET data == inflight[i].data IN
    /\ inflight[i].pc = "emit"
    /\ emit(data, data.receiver)
    /\ last' = Event("message", data.sender, data.receiver, data.message, "sent")
    /\ inflight' = Without(inflight, i)
    /\ UNCHANGED <<messages, blocks, rooms, history, connected>>

\* The block and unblock requests that run beside the handlers: those that
\* name a sender of the model as blocked.
ConcBlockers == {"B", "C"}
ConcBlockeds == Blockeds \cap Senders

NextConc ==
    \/ \E blocker \in ConcBlockers, blocked \in ConcBlockeds : block_user(blocker, blocked)
    \/ \E blocker \in ConcBlockers, blocked \in ConcBlockeds : unblock_user(blocker, blocked)
    \/ \E sid \in Sids, data \in DataSet : handle_message_check(sid, data)
    \/ \E i \in 1..Len(inflight), commit_ok \in BOOLEAN : handle_message_store(i, commit_ok)
    \/ \E i \in 1..Len(inflight) : handle_message_emit(i)
    \/ \E sid \in Sids, name \in ClientNames : handle_connect(sid, name)
    \/ \E sid \in Sids : handle_disconnect(sid)

SpecConc == Init /\ [][NextConc]_vars

\* ---------------------------------------------------------------- properties

\* A field of a message event that is missing or empty.
Absent(x) == x \in {None, ""}

\* The step just taken handled a message event with both names present.
ValidMessageStep == last'.op = "message" /\ ~Absent(last'.a) /\ ~Absent(last'.b)

\* The payload of the message event the latest step handled.
LastData == [sender |-> last.a, receiver |-> last.b, message |-> last.m]

\* The step appended exactly one row, for the event it handled, with a fresh id.
StoredOne ==
    /\ Len(messages') = Len(messages) + 1
    /\ SubSeq(messages', 1, Len(messages)) = messages
    /\ LET row == messages'[Len(messages')] IN
        /\ row.sender = last'.a
        /\ row.receiver = last'.b
        /\ row.message = last'.m
        /\ \A i \in 1..Len(messages) : messages[i].id < row.id

\* The step emitted the event it handled to the room named by its receiver,
\* that is to the connected session with that id, and to no other session.
Routed ==
    \A s \in Sids :
        inbox'[s] = IF rooms[s] # None /\ s = last'.b
                    THEN Append(inbox[s],
                            [sender |-> last'.a, receiver |-> last'.b, message |-> last'.m])
                    ELSE inbox[s]

\* Every payload a session holds has its row in the Message table.
DeliveredArePersisted ==
    \A s \in Sids : \A i \in 1..Len(inbox[s]) :
        \E j \in 1..Len(messages) :
            /\ messages[j].sender = inbox[s][i].sender
            /\ messages[j].receiver = inbox[s][i].receiver
            /\ messages[j].message = inbox[s][i].message

\* C1: a message event with sender S and receiver R, both non-empty, handled
\* while the block table holds the row (blocker = R, blocked = S), adds no
\* Message row, emits nothing to any session, and ends by the plain return
\* of the block check (no error, nothing sent back).
C1_BlockedMessageDropped ==
    [][(ValidMessageStep /\ BlockedUser(last'.b, last'.a) \in blocks)
        => (/\ messages' = messages
            /\ inbox' = inbox
            /\ last'.result = "blocked")]_vars

C1_Witness ==
    /\ last = Event("message", "A", "B", "hi", "blocked")
    /\ BlockedUser("B", "A") \in blocks
    /\ \E s \in Sids : rooms[s] # None

\* C2: a message event with sender S and receiver R, both non-empty, handled
\* while no row (blocker = R, blocked = S) exists and whose commit succeeds,
\* makes the Message table exactly one row longer; the new row carries the
\* event's sender, receiver and body and an id above every earlier id.
C2_OneRowPerMessage ==
    [][(/\ ValidMessageStep
        /\ BlockedUser(last'.b, last'.a) \notin blocks
        /\ last'.result # "error")
        => StoredOne]_vars

C2_Witness ==
    /\ last = Event("message", "A", "B", None, "sent")
    /\ Len(messages) = 2
    /\ messages[1].message = "hi"
    /\ messages[2] = Message(2, "A", "B", None, "")

\* C3: a message event whose sender or receiver is missing or empty changes
\* neither the Message table, nor the block table, nor any session, whatever
\* the block table holds.
C3_InvalidMessageIgnored ==
    [][(last'.op = "message" /\ (Absent(last'.a) \/ Absent(last'.b)))
        => (/\ messages' = messages
            /\ blocks' = blocks
            /\ inbox' = inbox
            /\ rooms' = rooms
            /\ last'.result = "missing")]_vars

C3_Witness ==
    /\ last = Event("message", "", "B", "hi", "missing")
    /\ BlockedUser("C", "A") \in blocks
    /\ messages # <<>>


\* C4: when a session of receiver B is connected and no row (blocker = B,
\* blocked = A) exists, a valid message event from A to B whose commit
\* succeeds leaves the payload in a session of B and its row in the table.
C4_ConnectedReceiverGetsMessage ==
    (/\ last.op = "message" /\ ~Absent(last.a) /\ ~Absent(last.b)
     /\ BlockedUser(last.b, last.a) \notin blocks
     /\ last.result # "error"
     /\ \E s \in Sids : rooms[s] = last.b)
    => (/\ \E s \in Sids :
            /\ rooms[s] = last.b
            /\ inbox[s] # <<>>
            /\ inbox[s][Len(inbox[s])] = LastData
        /\ messages # <<>>
        /\ messages[Len(messages)].sender = last.a
        /\ messages[Len(messages)].receiver = last.b
        /\ messages[Len(messages)].message = last.m)

\* C5: once a block request (blocker = B, blocked = A) has been made and B has
\* not unblocked A since, no message event from A to B is sent on: it is not
\* stored and not emitted, whatever other rows the block table holds.
C5_BlockRequestSuppresses ==
    (/\ last.op = "message" /\ ~Absent(last.a) /\ ~Absent(last.b)
     /\ <<last.b, last.a>> \in Pairs
     /\ history[<<last.b, last.a>>] = "blocked")
    => last.result # "sent"

\* C6: a valid message event from A to B is dropped by the block check if and
\* only if the row (blocker = B, blocked = A) exists when it is handled; a
\* dropped event stores and emits nothing, and an event that is not dropped
\* (and whose commit succeeds) is stored as one row and emitted to room B,
\* also when the opposite row (blocker = A, blocked = B) exists.
C6_BlockDirection ==
    [][ValidMessageStep
        => (/\ (last'.result = "blocked") <=> (BlockedUser(last'.b, last'.a) \in blocks)
            /\ last'.result = "blocked" => (messages' = messages /\ inbox' = inbox)
            /\ (BlockedUser(last'.b, last'.a) \notin blocks /\ last'.result # "error")
                => (StoredOne /\ Routed /\ last'.result = "sent"))]_vars

C6_Witness ==
    /\ last = Event("message", "A", "B", "hi", "sent")
    /\ blocks = {BlockedUser("A", "B")}
    /\ messages = <<Message(1, "A", "B", "hi", "")>>

\* C7: after a block request for (blocker = B, blocked = A) followed by an
\* unblock request for the same pair, a valid message event from A to B whose
\* commit succeeds is stored as exactly one row and emitted to room B: what
\* the handler does when no block was ever made.
C7_UnblockRestores ==
    [][(/\ ValidMessageStep
        /\ <<last'.b, last'.a>> \in Pairs
        /\ history[<<last'.b, last'.a>>] = "unblocked"
        /\ last'.result # "error")
        => (StoredOne /\ Routed /\ last'.result = "sent")]_vars

C7_Witness ==
    /\ last = Event("message", "A", "B", "hi", "sent")
    /\ history[<<"B", "A">>] = "unblocked"
    /\ messages = <<Message(1, "A", "B", "hi", "")>>

\* C8: an unblock request for (X, Y) answers 200 whether or not the row
\* (X, Y) exists, leaves no row (X, Y), and a second unblock of the pair
\* answers 200 again and leaves the table as the first one left it.
C8_UnblockIdempotent ==
    [][last'.op = "unblock"
        => (/\ last'.result = "200"
            /\ BlockedUser(last'.a, last'.b) \notin blocks'
            /\ Delete(blocks', last'.a, last'.b) = blocks'
            /\ UnblockStatus(blocks', last'.a, last'.b) = "200")]_vars

C8_Witness ==
    /\ last = Event("unblock", "C", "A", None, "200")
    /\ blocks = {BlockedUser("B", "A")}

\* C9: a valid message event that is not blocked and whose commit succeeds,
\* addressed to a receiver no connected session belongs to (none goes by the
\* receiver's name, none has it as its id), is stored as one row, ends the
\* handler normally and reaches no session; and a session that connects
\* starts with nothing delivered to it, so the message does not arrive later.
C9_BestEffortDelivery ==
    [][
        /\ (/\ ValidMessageStep
            /\ BlockedUser(last'.b, last'.a) \notin blocks
            /\ last'.result # "error"
            /\ \A s \in Sids : rooms[s] = None \/ (s # last'.b /\ rooms[s] # last'.b))
            => (StoredOne /\ inbox' = inbox /\ last'.result = "sent")
        /\ (last'.op = "connect")
            => (/\ inbox'[last'.a] = <<>>
                /\ \A s \in Sids \ {last'.a} : inbox'[s] = inbox[s]
                /\ messages' = messages)
    ]_vars

C9_Witness ==
    /\ last = Event("message", "A", "s1", "hi", "sent")
    /\ rooms["s1"] = None
    /\ rooms["s2"] # None
    /\ messages = <<Message(1, "A", "s1", "hi", "")>>
    /\ inbox = [s \in Sids |-> <<>>]

\* C10: every payload a session has received has its row in the Message
\* table, and a message event whose commit fails emits nothing and leaves
\* the table as it was.
C10_PersistThenBroadcast ==
    [][
        /\ (last'.op = "message" /\ last'.result = "error")
            => (messages' = messages /\ inbox' = inbox)
        /\ DeliveredArePersisted'
    ]_vars

C10_Witness ==
    /\ last = Event("message", "A", "s1", None, "error")
    /\ rooms["s1"] # None
    /\ inbox["s1"] = <<[sender |-> "A", receiver |-> "s1", message |-> "hi"]>>
    /\ Len(messages) = 1

\* C11: a block request whose blocked value is already in the block table
\* (under the same or another blocker) ends with the storage error, not with
\* the acknowledgment, and leaves the block table and the Message table as
\* they were; the requests that follow it are served as usual: an unblock
\* answers 200 and removes its pair, a block of a free name answers 200 and
\* adds its row.
C11_DuplicateBlockRejected ==
    [][
        /\ (last'.op = "block" /\ \E r \in blocks : r.blocked = last'.b)
            => (/\ last'.result = "IntegrityError"
                /\ blocks' = blocks
                /\ messages' = messages)
        /\ (last.result = "IntegrityError" /\ last'.op = "unblock")
            => (/\ last'.result = "200"
                /\ blocks' = blocks \ {BlockedUser(last'.a, last'.b)})
        /\ (/\ last.result = "IntegrityError"
            /\ last'.op = "block"
            /\ \A r \in blocks : r.blocked # last'.b)
            => (/\ last'.result = "200"
                /\ blocks' = blocks \cup {BlockedUser(last'.a, last'.b)})
    ]_vars

C11_Witness ==
    /\ last = Event("block", "B", "A", None, "IntegrityError")
    /\ blocks = {BlockedUser("C", "A")}
    /\ messages = <<Message(1, "A", "B", "hi", "")>>

\* C14: a message event that is accepted (stored and broadcast) puts its
\* inbound payload, field for field, at the end of what the connected session
\* in the room named by its receiver has received, and changes what no other
\* session has received.
C14_VerbatimForwarding ==
    [][(last'.op = "message" /\ last'.result = "sent")
        => \A s \in Sids :
            IF s = last'.b /\ rooms[s] # None
            THEN /\ Len(inbox'[s]) = Len(inbox[s]) + 1
                 /\ SubSeq(inbox'[s], 1, Len(inbox[s])) = inbox[s]
                 /\ inbox'[s][Len(inbox'[s])] =
                        [sender |-> last'.a, receiver |-> last'.b, message |-> last'.m]
            ELSE inbox'[s] = inbox[s]]_vars

C14_Witness ==
    /\ last = Event("message", "A", "s1", None, "sent")
    /\ rooms["s1"] # None /\ rooms["s2"] # None
    /\ inbox["s1"] = <<[sender |-> "A", receiver |-> "s1", message |-> None]>>
    /\ inbox["s2"] = <<>>

\* C16: for every two names x and y and every block table, is_blocked(x, y)
\* is true exactly when the table holds the row (blocker = y, blocked = x).
C16_IsBlockedContract ==
    \A x \in Blockers \cup Blockeds : \A y \in Blockers \cup Blockeds :
        is_blocked(x, y) <=> (\E r \in blocks : r.blocker = y /\ r.blocked = x)

\* C17: the block table never holds two rows with the same blocked value.
C17_OneRowPerBlocked ==
    \A r1 \in blocks : \A r2 \in blocks : r1.blocked = r2.blocked => r1 = r2

C17_Witness ==
    /\ last = Event("block", "B", "A", None, "IntegrityError")
    /\ blocks = {BlockedUser("C", "A"), BlockedUser("A", "B")}
    /\ messages # <<>>

\* C18: an unblock of (X, Y) removes the row (blocker = X, blocked = Y) and
\* nothing else, and leaves the Message table alone; a row leaves the block
\* table only in an unblock of its own pair.
C18_UnblockExactPair ==
    [][
        /\ (last'.op = "unblock")
            => (/\ blocks' = blocks \ {BlockedUser(last'.a, last'.b)}
                /\ messages' = messages)
        /\ \A r \in blocks :
            r \notin blocks'
                => (last'.op = "unblock" /\ last'.a = r.blocker /\ last'.b = r.blocked)
    ]_vars

C18_Witness ==
    /\ last = Event("unblock", "C", "A", None, "200")
    /\ blocks = {BlockedUser("B", "A"), BlockedUser("A", "B")}
    /\ messages # <<>>

\* C19: no step removes or changes a stored Message row, and every stored
\* row has a non-empty sender and a non-empty receiver.
C19_AppendOnlyStore ==
    [][
        /\ Len(messages') >= Len(messages)
        /\ SubSeq(messages', 1, Len(messages)) = messages
        /\ \A i \in 1..Len(messages') :
            ~Absent(messages'[i].sender) /\ ~Absent(messages'[i].receiver)
    ]_vars

C19_Witness ==
    /\ last = Event("block", "B", "A", None, "200")
    /\ messages = <<Message(1, "A", "B", "hi", "")>>
    /\ BlockedUser("B", "A") \in blocks

\* The connected sessions whose client goes by name, oldest first.
SessionsOf(name) == SelectSeq(connected, LAMBDA s : rooms[s] = name)

\* C13: once a second session of user U has connected while an older one is
\* still connected, a message event addressed to U that is stored and
\* broadcast reaches the newest session of U and no other session.
C13_SessionReplacement ==
    [][(/\ last'.op = "message" /\ last'.result = "sent"
        /\ Len(SessionsOf(last'.b)) >= 2)
        => LET new == SessionsOf(last'.b)[Len(SessionsOf(last'.b))] IN
           /\ inbox'[new] = Append(inbox[new],
                    [sender |-> last'.a, receiver |-> last'.b, message |-> last'.m])
           /\ \A s \in Sids \ {new} : inbox'[s] = inbox[s]]_vars

\* C12: two message events of one connection are never handled at the same
\* time, and of two valid, non-blocked events of one connection with the same
\* sender and receiver the one that arrived first is stored first and
\* emitted first.
C12_PerConnectionOrder ==
    \A i \in 1..Len(inflight) : \A j \in 1..Len(inflight) :
        i < j =>
            \* no two handlers of one connection run at the same time
            /\ inflight[i].sid # inflight[j].sid
            \* the later event is not stored while the earlier one still waits
            /\ (/\ inflight[i].sid = inflight[j].sid
                /\ inflight[i].data.sender = inflight[j].data.sender
                /\ inflight[i].data.receiver = inflight[j].data.receiver)
                => ~(inflight[i].pc = "store" /\ inflight[j].pc = "emit")

\* C15: when a Message row with sender A and receiver B is committed, the
\* block table holds no row (blocker = B, blocked = A), whatever requests ran
\* between the handler's block check and its commit.
C15_NoCommitWhileBlocked ==
    (last.op = "message" /\ last.result = "stored")
        => BlockedUser(last.b, last.a) \notin blocks

====
